---- MODULE Spec2Model ----
(***************************************************************************)
(* setup.py of "Machine Efficiency Prediction": the module body opens      *)
(* requirements.txt, reads it, splits it into lines, leaves the with-block *)
(* and calls setuptools.setup() with the static metadata, the discovered   *)
(* packages and the parsed requirements.                                   *)
(*                                                                         *)
(* A string is a sequence of characters; a character is one of the tokens  *)
(* of Alphabet.  LF, CR and FF stand for "\n", "\r" and "\f".              *)
(***************************************************************************)
EXTENDS Naturals, Sequences, FiniteSets

VARIABLES
    status,        \* requirements.txt on disk: "ok", "missing", "denied", "undecodable"
    manifest,      \* the characters of requirements.txt on disk
    tree,          \* directories of the source tree that hold an __init__.py
    pc,            \* position of the module body
    handleOpen,    \* the file object f is open
    requirements,  \* the module-level name `requirements`
    error,         \* the exception propagating out of the module body
    calls,         \* keyword arguments of each setup() call of this invocation
    history,       \* metadata records of all invocations so far, in order
    run            \* number of the current invocation of the script

vars == <<status, manifest, tree, pc, handleOpen, requirements, error, calls, history, run>>

----------------------------------------------------------------------------
\* Bounds of the model

MaxLen == 3
MaxRuns == 2

----------------------------------------------------------------------------
\* Characters

LF == "LF"
CR == "CR"
FF == "FF"
SP == " "

Alphabet == {"a", "b", SP, LF, CR, FF}

\* the line boundaries of str.splitlines that Alphabet holds
LineBreaks == {LF, CR, FF}

\* the characters str.strip() removes
Whitespace == {SP, LF, CR, FF}

Contents == UNION {[1..n -> Alphabet] : n \in 0..MaxLen}

Dirs == {"pkg", "pkg.sub"}

----------------------------------------------------------------------------
\* The library functions the script calls, computed as Python computes them

\* open(..) in text mode with newline=None: f.read() turns "\r\n" and a lone
\* "\r" into "\n"
RECURSIVE read(_)
read(raw) ==
    IF raw = <<>> THEN <<>>
    ELSE IF raw[1] = CR
         THEN IF Len(raw) >= 2 /\ raw[2] = LF
              THEN <<LF>> \o read(SubSeq(raw, 3, Len(raw)))
              ELSE <<LF>> \o read(Tail(raw))
         ELSE <<raw[1]>> \o read(Tail(raw))

\* first index j >= i with s[j] a line boundary, Len(s)+1 when there is none
RECURSIVE NextBreak(_, _)
NextBreak(s, i) ==
    IF i > Len(s) THEN Len(s) + 1
    ELSE IF s[i] \in LineBreaks THEN i ELSE NextBreak(s, i + 1)

\* the loop of str.splitlines(keepends=False)
RECURSIVE splitFrom(_, _, _)
splitFrom(s, i, acc) ==
    IF i > Len(s) THEN acc
    ELSE LET j == NextBreak(s, i)
             next == IF j > Len(s) THEN j
                     ELSE IF s[j] = CR /\ j < Len(s) /\ s[j + 1] = LF
                          THEN j + 2
                          ELSE j + 1
         IN splitFrom(s, next, Append(acc, SubSeq(s, i, j - 1)))

\* str.split("\n"): a terminator at the end leaves a last empty piece, and the
\* empty string gives one empty piece
RECURSIVE splitKeepLast(_, _, _)
splitKeepLast(s, i, acc) ==
    LET j == NextBreak(s, i)
    IN IF j > Len(s) THEN Append(acc, SubSeq(s, i, Len(s)))
       ELSE splitKeepLast(s, j + 1, Append(acc, SubSeq(s, i, j - 1)))

splitlines_split(s) == splitKeepLast(s, 1, <<>>)

\* the file opened for update and emptied once it was read
ModeR_rewrite(c) == <<>>

\* open("requirements.txt") is mode "r": what the handle leaves on disk when it
\* is closed
ModeR(c) == c

\* a comprehension that drops the empty lines: [l for l in ... if l]
splitlines_nonblank(s) == SelectSeq(splitFrom(s, 1, <<>>), LAMBDA l : l # <<>>)

\* str.strip()
RECURSIVE lstrip(_)
lstrip(s) == IF s # <<>> /\ s[1] \in Whitespace THEN lstrip(Tail(s)) ELSE s

RECURSIVE rstrip(_)
rstrip(s) ==
    IF s # <<>> /\ s[Len(s)] \in Whitespace THEN rstrip(SubSeq(s, 1, Len(s) - 1)) ELSE s

strip(s) == lstrip(rstrip(s))

\* a comprehension that strips every line: [l.strip() for l in ...]
splitlines_strip(s) == [k \in 1..Len(splitFrom(s, 1, <<>>)) |-> strip(splitFrom(s, 1, <<>>)[k])]

\* str.splitlines()
splitlines(s) == splitFrom(s, 1, <<>>)

\* find_packages(): a directory is a package when it and every directory above
\* it hold an __init__.py
find_packages(t) == {d \in t : d = "pkg.sub" => "pkg" \in t}

\* the install_requires keyword forgotten
SetupArgs_noreqs(reqs, pkgs) ==
    [name |-> "Machine Efficiency Prediction", version |-> "0.1",
     author |-> "David G", packages |-> pkgs, install_requires |-> <<>>]

\* the keyword arguments of the setup() call
SetupArgs(reqs, pkgs) ==
    [name |-> "Machine Efficiency Prediction", version |-> "0.1",
     author |-> "David G", packages |-> pkgs, install_requires |-> reqs]

----------------------------------------------------------------------------
\* The module body

Init ==
    /\ status \in {"ok", "missing", "denied", "undecodable"}
    /\ manifest \in Contents
    /\ status # "ok" => manifest = <<>>
    /\ tree \in SUBSET Dirs
    /\ pc = "start"
    /\ handleOpen = FALSE
    /\ requirements = <<>>
    /\ error = "none"
    /\ calls = <<>>
    /\ history = <<>>
    /\ run = 1

\* a try/except around the open that falls back to no requirements
OpenManifest_recover ==
    /\ pc = "start"
    /\ IF status \in {"missing", "denied"}
       THEN /\ pc' = "closed"
            /\ UNCHANGED <<handleOpen, manifest, error>>
       ELSE /\ handleOpen' = TRUE
            /\ pc' = "opened"
            /\ UNCHANGED <<manifest, error>>
    /\ UNCHANGED <<status, tree, requirements, calls, history, run>>

\* line 3: open("requirements.txt"); a failure propagates out of the module
OpenManifest ==
    /\ pc = "start"
    /\ IF status \in {"missing", "denied"}
       THEN /\ error' = "ManifestUnreadable"
            /\ pc' = "aborted"
            /\ UNCHANGED <<handleOpen, manifest>>
       ELSE /\ handleOpen' = TRUE
            /\ pc' = "opened"
            /\ UNCHANGED <<manifest, error>>
    /\ UNCHANGED <<status, tree, requirements, calls, history, run>>

\* a validation that rejects blank lines
ReadManifest_strict ==
    /\ pc = "opened"
    /\ IF status = "undecodable" \/ <<>> \in {splitlines(read(manifest))[k] :
                                             k \in 1..Len(splitlines(read(manifest)))}
       THEN /\ error' = "ManifestUnreadable"
            /\ pc' = "raising"
            /\ UNCHANGED requirements
       ELSE /\ requirements' = splitlines(read(manifest))
            /\ pc' = "parsed"
            /\ UNCHANGED error
    /\ UNCHANGED <<status, manifest, tree, handleOpen, calls, history, run>>

\* line 4: requirements = f.read().splitlines(); a read error leaves the block
\* through __exit__
ReadManifest ==
    /\ pc = "opened"
    /\ IF status = "undecodable"
       THEN /\ error' = "ManifestUnreadable"
            /\ pc' = "raising"
            /\ UNCHANGED requirements
       ELSE /\ requirements' = splitlines(read(manifest))
            /\ pc' = "parsed"
            /\ UNCHANGED error
    /\ UNCHANGED <<status, manifest, tree, handleOpen, calls, history, run>>

\* f = open(..) without the with-statement: nothing closes f
ExitWith_leak ==
    /\ pc \in {"parsed", "raising"}
    /\ pc' = IF pc = "raising" THEN "aborted" ELSE "closed"
    /\ UNCHANGED <<status, manifest, tree, handleOpen, requirements, error, calls,
                   history, run>>

\* end of the with-block (lines 3-4): f.__exit__ closes f, on an exception too
ExitWith ==
    /\ pc \in {"parsed", "raising"}
    /\ handleOpen' = FALSE
    /\ manifest' = ModeR(manifest)
    /\ pc' = IF pc = "raising" THEN "aborted" ELSE "closed"
    /\ UNCHANGED <<status, tree, requirements, error, calls, history, run>>

\* lines 6-12: the setup() call starts
CallSetup ==
    /\ pc = "closed"
    /\ calls' = Append(calls, SetupArgs(requirements, find_packages(tree)))
    /\ history' = Append(history, SetupArgs(requirements, find_packages(tree)))
    /\ pc' = "registering"
    /\ UNCHANGED <<status, manifest, tree, handleOpen, requirements, error, run>>

\* line 12: setup() returns and the module body ends
SetupReturn ==
    /\ pc = "registering"
    /\ pc' = "done"
    /\ UNCHANGED <<status, manifest, tree, handleOpen, requirements, error, calls,
                   history, run>>

\* the packaging tool runs the script again, in a new interpreter, on the same
\* files
Rerun ==
    /\ pc \in {"done", "aborted"}
    /\ run < MaxRuns
    /\ run' = run + 1
    /\ pc' = "start"
    /\ handleOpen' = FALSE
    /\ requirements' = <<>>
    /\ error' = "none"
    /\ calls' = <<>>
    /\ UNCHANGED <<status, manifest, tree, history>>

\* one step of the script itself
Step == OpenManifest \/ ReadManifest \/ ExitWith \/ CallSetup \/ SetupReturn

Next ==
    \/ OpenManifest
    \/ ReadManifest
    \/ ExitWith
    \/ CallSetup
    \/ SetupReturn
    \/ Rerun

Spec == Init /\ [][Next]_vars

\* Init with the whole source tree made of packages
FairInit == Init /\ tree = Dirs

\* the interpreter runs the module body to its end
FairSpec == FairInit /\ [][Next]_vars /\ WF_vars(Step)

----------------------------------------------------------------------------
\* The lines of a manifest file, by the positions of its line terminators
\* (a terminator is "\n", "\r\n", a lone "\r", or "\f")

\* position i of c is the last character of a line terminator
TermEnd(c, i) ==
    \/ c[i] \in {LF, FF}
    \/ c[i] = CR /\ ~(i < Len(c) /\ c[i + 1] = LF)

TermEnds(c) == {i \in 1..Len(c) : TermEnd(c, i)}

\* the first character of the terminator that ends at i
TermStart(c, i) == IF c[i] = LF /\ i > 1 /\ c[i - 1] = CR THEN i - 1 ELSE i

EndsInTerminator(c) == c # <<>> /\ TermEnd(c, Len(c))

LineCount(c) ==
    Cardinality(TermEnds(c)) + (IF c # <<>> /\ ~EndsInTerminator(c) THEN 1 ELSE 0)

\* the end of the k-th terminator, 0 for k = 0
KthEnd(c, k) ==
    IF k = 0 THEN 0
    ELSE CHOOSE e \in TermEnds(c) : Cardinality({x \in TermEnds(c) : x <= e}) = k

\* line k is followed by a line terminator
Terminated(c, k) == k <= Cardinality(TermEnds(c))

\* the k-th line of c, without its terminator
Line(c, k) ==
    SubSeq(c, KthEnd(c, k - 1) + 1,
           IF Terminated(c, k) THEN TermStart(c, KthEnd(c, k)) - 1 ELSE Len(c))

Lines(c) == [k \in 1..LineCount(c) |-> Line(c, k)]

HasBlankLine(c) == \E k \in 1..LineCount(c) : Line(c, k) = <<>>

\* the non-empty lines of c, each stripped, in manifest order
StrippedLines(c) ==
    LET kept == SelectSeq(Lines(c), LAMBDA l : l # <<>>)
    IN [k \in 1..Len(kept) |-> strip(kept[k])]

\* no line of c is blank and no line carries surrounding whitespace
Clean(c) == \A k \in 1..LineCount(c) : Line(c, k) # <<>> /\ strip(Line(c, k)) = Line(c, k)

\* `requirements` is bound
Parsed == pc \in {"parsed", "closed", "registering", "done"}

----------------------------------------------------------------------------
\* C1 as stated: for every readable manifest the requirements sequence is the
\* sequence of its non-empty lines, each stripped, in manifest order.
C1_AsStated == Parsed => requirements = StrippedLines(manifest)

\* C1 amended: the requirements sequence is the sequence of the stripped
\* non-empty lines of the manifest exactly when no line of the manifest is blank
\* and no line carries surrounding whitespace.
C1_StrippedIffClean ==
    Parsed => (requirements = StrippedLines(manifest) <=> Clean(manifest))

C1_Witness ==
    /\ Parsed
    /\ Clean(manifest)
    /\ Len(requirements) = 2
    /\ requirements[1] # requirements[2]

\* C2: when requirements.txt is missing or unreadable, setup() is never called,
\* the error is never cleared, and the script can only stop in the aborted
\* state with ManifestUnreadable.
C2_UnreadableAborts ==
    /\ status # "ok" =>
          /\ calls = <<>>
          /\ history = <<>>
          /\ pc \in {"start", "opened", "raising", "aborted"}
          /\ (~ENABLED Step) => pc = "aborted"
    /\ error # "none" =>
          /\ error = "ManifestUnreadable"
          /\ status # "ok"
          /\ pc \in {"raising", "aborted"}
    /\ pc \in {"raising", "aborted"} => error = "ManifestUnreadable"

C2_Witness ==
    /\ status = "missing"
    /\ pc = "aborted"
    /\ error = "ManifestUnreadable"
    /\ calls = <<>>

\* C3: for an empty readable manifest the requirements sequence is empty, the
\* script does not abort, and the setup() call receives install_requires = [].
C3_EmptyManifest ==
    (status = "ok" /\ manifest = <<>>) =>
        /\ pc \notin {"raising", "aborted"}
        /\ Parsed => requirements = <<>>
        /\ pc \in {"registering", "done"} =>
              Len(calls) = 1 /\ calls[1].install_requires = <<>>

C3_Witness ==
    /\ status = "ok"
    /\ manifest = <<>>
    /\ pc = "registering"
    /\ Len(calls) = 1
    /\ calls[1].install_requires = <<>>

\* C4: every invocation of the script on the same files yields the same metadata
\* record: all records made so far are equal, and once one invocation has made
\* a record every finished invocation has made one.
C4_Idempotent ==
    /\ \A i, j \in 1..Len(history) : history[i] = history[j]
    /\ pc \in {"done", "aborted"} => Len(history) \in {0, run}

C4_Witness ==
    /\ run = 2
    /\ pc = "done"
    /\ Len(history) = 2
    /\ history[1].install_requires # <<>>

\* C5 as stated: no entry of the requirements sequence is the empty string.
C5_AsStated == Parsed => \A k \in 1..Len(requirements) : requirements[k] # <<>>

\* C5 amended: the sequence has one entry per line of the manifest, and every
\* entry is a non-empty string exactly when the manifest has no blank line.
C5_NonEmptyIffNoBlank ==
    Parsed =>
        /\ Len(requirements) = LineCount(manifest)
        /\ (\A k \in 1..Len(requirements) : requirements[k] # <<>>)
              <=> ~HasBlankLine(manifest)

C5_Witness ==
    /\ Parsed
    /\ ~HasBlankLine(manifest)
    /\ Len(requirements) = 2
    /\ \E k \in 1..2 : requirements[k] = <<SP>>

\* C6: the sequence has one entry per line of the manifest, blank lines
\* included, and every blank line followed by a terminator gives an empty entry
\* at its position.
C6_BlankLinesKept ==
    Parsed =>
        /\ Len(requirements) = LineCount(manifest)
        /\ \A k \in 1..LineCount(manifest) :
              (Terminated(manifest, k) /\ Line(manifest, k) = <<>>)
                  => requirements[k] = <<>>

C6_Witness ==
    /\ Parsed
    /\ Len(requirements) = 3
    /\ requirements[1] = <<>>
    /\ requirements[2] = <<>>
    /\ requirements[3] # <<>>

\* C7: setup() is called at most once per invocation, and exactly once on a
\* successful one, with the three literal fields, the discovered packages and
\* install_requires equal to the parsed requirements, which are the lines of the
\* manifest in order.
C7_RegisteredOnce ==
    /\ Len(calls) <= 1
    /\ pc \in {"registering", "done"} =>
          /\ Len(calls) = 1
          /\ calls[1].name = "Machine Efficiency Prediction"
          /\ calls[1].version = "0.1"
          /\ calls[1].author = "David G"
          /\ calls[1].packages = find_packages(tree)
          /\ calls[1].install_requires = requirements
          /\ calls[1].install_requires = Lines(manifest)
          /\ DOMAIN calls[1] = {"name", "version", "author", "packages", "install_requires"}

C7_Witness ==
    /\ pc = "done"
    /\ Len(calls) = 1
    /\ Len(calls[1].install_requires) = 2
    /\ calls[1].install_requires[1] # calls[1].install_requires[2]
    /\ calls[1].packages = {"pkg", "pkg.sub"}

\* C8: the handle is open exactly between the open and the end of the
\* with-block; it is closed while setup() runs and after, and closed when the
\* read raised.
C8_HandleReleased ==
    /\ pc \in {"start", "closed", "registering", "done", "aborted"} => ~handleOpen
    /\ pc \in {"opened", "parsed", "raising"} => handleOpen
    /\ pc \in {"registering", "done"} => Len(requirements) = LineCount(manifest)

C8_Witness ==
    /\ pc = "aborted"
    /\ status = "undecodable"
    /\ ~handleOpen

\* C9 as stated: for every manifest that does not end in a line terminator,
\* the manifest followed by one newline parses to the same sequence.
C9_AsStated ==
    (Parsed /\ ~EndsInTerminator(manifest)) =>
        splitlines(read(manifest \o <<LF>>)) = requirements

\* C9 amended: the same for every non-empty manifest that does not end in a
\* line terminator.
C9_TrailingNewline ==
    (Parsed /\ manifest # <<>> /\ ~EndsInTerminator(manifest)) =>
        splitlines(read(manifest \o <<LF>>)) = requirements

C9_Witness ==
    /\ Parsed
    /\ manifest # <<>>
    /\ ~EndsInTerminator(manifest)
    /\ Len(requirements) = 2

\* C10: with a readable manifest the script raises no error, whatever the
\* manifest holds, and every invocation reaches the setup() call.
C10_ReadableReachesSetup ==
    /\ [](status = "ok" => error = "none" /\ pc \notin {"raising", "aborted"})
    /\ (status = "ok" /\ pc = "start") ~> (pc = "registering")

C10_Witness ==
    /\ status = "ok"
    /\ pc = "registering"
    /\ HasBlankLine(manifest)
    /\ \E k \in 1..Len(requirements) : requirements[k] = <<SP>>

====
